---- MODULE Spec2Model ----
(***************************************************************************)
(* Model of transcribe.py: batch transcription with faster-whisper.        *)
(*                                                                         *)
(* Text is modelled as a sequence of one-character strings, so that the    *)
(* regular expressions, the line splitting and the formatting of the       *)
(* script are computed character by character.  Times are integers in      *)
(* whole seconds plus microseconds (the resolution of datetime.timedelta). *)
(***************************************************************************)
EXTENDS Integers, Sequences, FiniteSets

VARIABLES
    pc,            \* position of the script
    run,           \* number of the current execution of the script
    disk,          \* contents of OUT_DIR: file name -> content
    prev_disk,     \* contents of OUT_DIR when the previous execution ended
    audio_dir,     \* the names listed in AUDIO_DIR
    fault,         \* engine/filesystem stub: audio name -> where its processing raises
    load_fault,    \* engine stub: which WhisperModel constructions raise
    audio_files,   \* line 105
    i,             \* loop index of line 148 (1-based)
    MODEL_NAME,    \* line 130 / 136
    loads,         \* model names handed to WhisperModel(), in order
    invoked,       \* <<file name, model name>> of every model.transcribe call, in order
    total_seconds, \* line 145 (a Time)
    errores,       \* line 146: sequence of file names (the message is not modelled)
    segments,      \* line 157: Unbound or [owner, val]
    info,          \* line 157
    trozos,        \* line 175
    segs_buenos,   \* line 176
    texto,         \* line 185
    report,        \* what lines 223-229 print
    written,       \* what this execution has written into OUT_DIR so far
    arg,           \* input of the pure function under check
    ret            \* its result

vars == <<pc, run, disk, prev_disk, audio_dir, fault, load_fault, audio_files, i,
          MODEL_NAME, loads, invoked, total_seconds, errores, segments, info,
          trozos, segs_buenos, texto, report, written, arg, ret>>

(***************************************************************************)
(* Characters                                                              *)
(***************************************************************************)
DigitChars == <<"0", "1", "2", "3", "4", "5", "6", "7", "8", "9">>

IsDigit(c) == \E k \in 1..10 : DigitChars[k] = c

DigitVal(c) == (CHOOSE k \in 1..10 : DigitChars[k] = c) - 1

UpperChars == <<"A", "B", "M", "O", "P", "S", "U">>

LowerChars == <<"a", "b", "m", "o", "p", "s", "u">>

IsUpper(c) == \E k \in 1..Len(UpperChars) : UpperChars[k] = c

\* str.casefold / str.lower / re.IGNORECASE on one character
Fold(c) == IF IsUpper(c) THEN LowerChars[CHOOSE k \in 1..Len(UpperChars) : UpperChars[k] = c]
           ELSE c

\* \s of the re module, str.strip, str.isspace
IsSpace(c) == c \in {" ", "\n", "\t"}

\* \w of the re module: everything the model uses that is neither white space nor punctuation
IsWord(c) == ~IsSpace(c) /\ c \notin {",", ".", "-", ":", ">"}

\* Code point order of the characters that names are built from
Ord(c) == CASE c = " " -> 32
            [] c = "-" -> 45
            [] c = "." -> 46
            [] IsDigit(c) -> 48 + DigitVal(c)
            [] c = "A" -> 65
            [] c = "B" -> 66
            [] c = "M" -> 77
            [] c = "P" -> 80
            [] c = "S" -> 83
            [] c = "_" -> 95
            [] c = "a" -> 97
            [] c = "b" -> 98
            [] c = "m" -> 109
            [] c = "n" -> 110
            [] c = "p" -> 112
            [] c = "s" -> 115
            [] c = "t" -> 116
            [] c = "v" -> 118
            [] c = "w" -> 119
            [] c = "x" -> 120
            [] OTHER -> 200

FoldStr(s) == [k \in 1..Len(s) |-> Fold(s[k])]

\* s[a:b] of Python with 0 <= a, b (0-based, b exclusive)
Slice(s, a, b) == IF b <= a THEN <<>> ELSE SubSeq(s, a + 1, IF b > Len(s) THEN Len(s) ELSE b)

\* str.strip()
Strip(s) ==
    LET idx == {k \in 1..Len(s) : ~IsSpace(s[k])}
    IN  IF idx = {} THEN <<>>
        ELSE SubSeq(s, CHOOSE k \in idx : \A j \in idx : k <= j,
                       CHOOSE k \in idx : \A j \in idx : k >= j)

\* int(s) for a string of digits
RECURSIVE StrToInt(_)
StrToInt(s) == IF s = <<>> THEN 0
               ELSE 10 * StrToInt(SubSeq(s, 1, Len(s) - 1)) + DigitVal(s[Len(s)])

\* str(n) for n >= 0
RECURSIVE IntToStr(_)
IntToStr(n) == IF n < 10 THEN <<DigitChars[n + 1]>>
               ELSE IntToStr(n \div 10) \o <<DigitChars[(n % 10) + 1]>>

\* str.rjust(width, "0")
RECURSIVE RjustZero(_, _)
RjustZero(s, width) == IF Len(s) >= width THEN s ELSE RjustZero(<<"0">> \o s, width)

\* f"{n:02d}" / "%02d" % n
Pad2(n) == RjustZero(IntToStr(n), 2)

\* "sep".join(parts)
RECURSIVE Join(_, _)
Join(parts, sep) == IF parts = <<>> THEN <<>>
                    ELSE IF Len(parts) = 1 THEN parts[1]
                    ELSE parts[1] \o sep \o Join(Tail(parts), sep)

\* str.splitlines() for texts whose only line break is "\n"
RECURSIVE SplitLines(_)
SplitLines(s) ==
    IF s = <<>> THEN <<>>
    ELSE LET nl == {k \in 1..Len(s) : s[k] = "\n"}
         IN  IF nl = {} THEN <<s>>
             ELSE LET k == CHOOSE x \in nl : \A y \in nl : x <= y
                  IN  <<SubSeq(s, 1, k - 1)>> \o SplitLines(SubSeq(s, k + 1, Len(s)))

\* The character classes of the script's regular expressions:
\* \d, \w, \s and [,\s]
InClass(class, c) ==
    CASE class = "digit" -> IsDigit(c)
      [] class = "word" -> IsWord(c)
      [] class = "space" -> IsSpace(c)
      [] class = "comma_space" -> c = "," \/ IsSpace(c)

\* Length of the maximal run of characters of a class that starts at position k:
\* what a greedy class+ matches there
RECURSIVE RunLen(_, _, _)
RunLen(class, s, k) ==
    IF k > Len(s) \/ ~InClass(class, s[k]) THEN 0 ELSE 1 + RunLen(class, s, k + 1)

(***************************************************************************)
(* fmt_hhmmss, lines 13-17                                                 *)
(***************************************************************************)
\* An optional value (None, or a missing attribute) is <<>>; a present value v is <<v>>
None == <<>>

MICRO == 1000000

\* A time or duration in seconds is [s |-> whole seconds (floor), us |-> microseconds],
\* the normal form of datetime.timedelta; TLC's integers cannot hold an hour in microseconds
Time(s, us) == [s |-> s, us |-> us]

\* a + b on two times
TimeAdd(a, b) == Time(a.s + b.s + ((a.us + b.us) \div MICRO), (a.us + b.us) % MICRO)

\* The callers pass a number, for which "seconds or 0" is the number itself
fmt_hhmmss(seconds) ==
    LET secs == seconds.s                    \* int(math.floor(seconds or 0))
        h == secs \div 3600
        rem == secs % 3600
        m == rem \div 60
        s == rem % 60
    IN  Pad2(h) \o <<":">> \o Pad2(m) \o <<":">> \o Pad2(s)

(***************************************************************************)
(* _split_natural, lines 19-22.  A token is <<"s", text>> or <<"n", int>>. *)
(***************************************************************************)
RECURSIVE _split_natural(_)
_split_natural(s) ==
    LET digits == {k \in 1..Len(s) : IsDigit(s[k])}
    IN  IF digits = {} THEN << <<"s", FoldStr(s)>> >>
        ELSE LET d == CHOOSE k \in digits : \A j \in digits : k <= j
                 r == RunLen("digit", s, d)
             IN  << <<"s", FoldStr(SubSeq(s, 1, d - 1))>>,
                    <<"n", StrToInt(SubSeq(s, d, d + r - 1))>> >>
                 \o _split_natural(SubSeq(s, d + r, Len(s)))

(***************************************************************************)
(* windows_natural_key, lines 24-32.  The key is <<group, lead, tokens>>;  *)
(* float('inf') is the string "inf".                                       *)
(***************************************************************************)
\* re.match(r'^(\d+)\b', name): the end of the match (0 when there is none).
\* \d+ is greedy; a shorter digit prefix is followed by a digit, where \b fails.
LeadMatchEnd(name) ==
    LET r == RunLen("digit", name, 1)
    IN  IF r >= 1 /\ (r = Len(name) \/ ~IsWord(name[r + 1])) THEN r ELSE 0

windows_natural_key(pname) ==
    LET name == Strip(pname)
        e == LeadMatchEnd(name)
    IN  IF e > 0
        THEN <<0, StrToInt(SubSeq(name, 1, e)), _split_natural(SubSeq(name, e + 1, Len(name)))>>
        ELSE <<1, "inf", _split_natural(name)>>

\* Python's str < str: lexicographic on code points
RECURSIVE StrLess(_, _)
StrLess(a, b) ==
    IF b = <<>> THEN FALSE
    ELSE IF a = <<>> THEN TRUE
    ELSE IF Ord(a[1]) # Ord(b[1]) THEN Ord(a[1]) < Ord(b[1])
    ELSE StrLess(Tail(a), Tail(b))

\* Tokens at the same position have the same type (texts and numbers alternate)
TokenLess(a, b) == IF a[1] = "n" THEN a[2] < b[2] ELSE StrLess(a[2], b[2])

\* Python's list < list
RECURSIVE ListLess(_, _)
ListLess(a, b) ==
    IF b = <<>> THEN FALSE
    ELSE IF a = <<>> THEN TRUE
    ELSE IF a[1] # b[1] THEN TokenLess(a[1], b[1])
    ELSE ListLess(Tail(a), Tail(b))

\* Python's tuple < tuple on two keys
KeyLess(k1, k2) ==
    IF k1[1] # k2[1] THEN k1[1] < k2[1]
    ELSE IF k1[2] # k2[2] THEN k1[2] < k2[2]
    ELSE ListLess(k1[3], k2[3])

\* sorted(names, key=windows_natural_key): a stable sort
RECURSIVE InsertByKey(_, _)
InsertByKey(sorted, x) ==
    IF sorted = <<>> THEN <<x>>
    ELSE IF KeyLess(windows_natural_key(x), windows_natural_key(sorted[1]))
         THEN <<x>> \o sorted
         ELSE <<sorted[1]>> \o InsertByKey(Tail(sorted), x)

RECURSIVE SortFrom(_, _)
SortFrom(done, rest) ==
    IF rest = <<>> THEN done ELSE SortFrom(InsertByKey(done, rest[1]), Tail(rest))

SortedByKey(names) == SortFrom(<<>>, names)

(***************************************************************************)
(* srt_timestamp, lines 76-79                                              *)
(***************************************************************************)
\* str(datetime.timedelta) for a non-negative time
TimedeltaStr(td) ==
    LET days == td.s \div 86400
        seconds == td.s % 86400
        microseconds == td.us
        mm == seconds \div 60
        ss == seconds % 60
        hh == mm \div 60
        hms == IntToStr(hh) \o <<":">> \o Pad2(mm % 60) \o <<":">> \o Pad2(ss)
        d == IF days = 0 THEN <<>>
             ELSE IntToStr(days) \o <<" ", "d", "a", "y">>
                  \o (IF days # 1 THEN <<"s">> ELSE <<>>) \o <<",", " ">>
        f == IF microseconds = 0 THEN <<>>
             ELSE <<".">> \o RjustZero(IntToStr(microseconds), 6)
    IN  d \o hms \o f

\* str.replace(old, new) for one-character old and new
Replace(s, old, new) == [k \in 1..Len(s) |-> IF s[k] = old THEN new ELSE s[k]]

srt_timestamp(t) ==
    LET td == IF t.s < 0 THEN Time(0, 0) ELSE t   \* max(0.0, float(t))
        str == TimedeltaStr(td)
    IN  Replace(RjustZero(Slice(str, 0, Len(str) - 3), 12), ".", ",")

(***************************************************************************)
(* Text post-processing, lines 36-74                                       *)
(***************************************************************************)
\* "Subtítulos realizados por la comunidad de Amara.org" ("i_acute" is the letter í)
BASURA_ES ==
    <<"S", "u", "b", "t", "i_acute", "t", "u", "l", "o", "s", " ", "r", "e", "a", "l", "i",
      "z", "a", "d", "o", "s", " ", "p", "o", "r", " ", "l", "a", " ", "c", "o", "m",
      "u", "n", "i", "d", "a", "d", " ", "d", "e", " ", "A", "m", "a", "r", "a", ".",
      "o", "r", "g">>

\* "Subtitles by Amara.org community"
BASURA_EN ==
    <<"S", "u", "b", "t", "i", "t", "l", "e", "s", " ", "b", "y", " ", "A", "m", "a", "r",
      "a", ".", "o", "r", "g", " ", "c", "o", "m", "m", "u", "n", "i", "t", "y">>

BASURA == {BASURA_ES, BASURA_EN}

StripAll(lines) == [k \in 1..Len(lines) |-> Strip(lines[k])]

limpiar_basura(text) ==
    LET lines == StripAll(SplitLines(text))
        kept == SelectSeq(lines, LAMBDA l : l # <<>> /\ l \notin BASURA)
    IN  Join(kept, <<"\n">>)

\* The loop of lines 49-56 over lines[k..]; the result is the final value of out
RECURSIVE DedupeLoop(_, _, _, _, _, _)
DedupeLoop(lines, k, out, last, runs, max_runs) ==
    IF k > Len(lines) THEN out
    ELSE IF last # None /\ lines[k] = last[1]    \* last is None or <<line>>
         THEN DedupeLoop(lines, k + 1,
                         IF runs + 1 < max_runs THEN Append(out, lines[k]) ELSE out,
                         last, runs + 1, max_runs)
         ELSE DedupeLoop(lines, k + 1, Append(out, lines[k]), <<lines[k]>>, 0, max_runs)

dedupe_lines(text, max_runs) ==
    LET lines == SelectSeq(StripAll(SplitLines(text)), LAMBDA l : l # <<>>)  \* line 49
    IN  Join(DedupeLoop(lines, 1, <<>>, None, 0, max_runs), <<"\n">>)

\* (?:SEP+\1)* after position q (the first position not yet matched): the position
\* after the last repetition and the number of repetitions.  A repetition that is
\* followed by a word character cannot be followed by SEP+ and fails the final \b,
\* so the greedy match backtracks over it.
RECURSIVE Repetitions(_, _, _, _, _)
Repetitions(sep_class, s, q, word, count) ==
    LET sep == RunLen(sep_class, s, q)
        a == q + sep
        b == a + Len(word) - 1
    IN  IF /\ sep >= 1
           /\ b <= Len(s)
           /\ FoldStr(SubSeq(s, a, b)) = FoldStr(word)
           /\ (b = Len(s) \/ ~IsWord(s[b + 1]))
        THEN Repetitions(sep_class, s, b + 1, word, count + 1)
        ELSE <<q, count>>

\* re.sub(r"\b(\w+)(?:SEP+\1){2,}\b", r"\1", s, flags=re.IGNORECASE) from position p on
RECURSIVE CollapseFrom(_, _, _)
CollapseFrom(sep_class, s, p) ==
    IF p > Len(s) THEN <<>>
    ELSE IF IsWord(s[p]) /\ (p = 1 \/ ~IsWord(s[p - 1]))
         THEN LET w == RunLen("word", s, p)
                  word == SubSeq(s, p, p + w - 1)
                  reps == Repetitions(sep_class, s, p + w, word, 0)
              IN  IF reps[2] >= 2 THEN word \o CollapseFrom(sep_class, s, reps[1])
                  ELSE <<s[p]>> \o CollapseFrom(sep_class, s, p + 1)
         ELSE <<s[p]>> \o CollapseFrom(sep_class, s, p + 1)

colapsar_palabras_repetidas(text) ==
    LET t1 == CollapseFrom("comma_space", text, 1)   \* line 63
    IN  CollapseFrom("space", t1, 1)               \* line 64

\* re.sub(r"\s+X", "X", s) for a punctuation character X, from position p on
RECURSIVE SpaceBeforeFrom(_, _, _)
SpaceBeforeFrom(s, p, x) ==
    IF p > Len(s) THEN <<>>
    ELSE LET r == RunLen("space", s, p)
         IN  IF r >= 1 /\ p + r <= Len(s) /\ s[p + r] = x
             THEN <<x>> \o SpaceBeforeFrom(s, p + r + 1, x)
             ELSE <<s[p]>> \o SpaceBeforeFrom(s, p + 1, x)

postprocesar(text) ==
    LET t1 == limpiar_basura(text)
        t2 == dedupe_lines(t1, 1)
        t3 == colapsar_palabras_repetidas(t2)
        t4 == SpaceBeforeFrom(t3, 1, ".")
        t5 == SpaceBeforeFrom(t4, 1, ",")
    IN  Strip(t5)

(***************************************************************************)
(* The environment of a run: the input directory, and a deterministic stub *)
(* of the inference engine and of the file system's failures.              *)
(***************************************************************************)
MaxFiles == 3       \* largest number of entries of AUDIO_DIR
MaxRuns == 2        \* consecutive executions of the script

\* The names AUDIO_DIR may hold.  Their keys differ, so the order in which
\* iterdir() lists them does not show in the sorted list.
NAME_1 == <<"1", ".", "w", "a", "v">>
NAME_10 == <<"1", "0", ".", "m", "p", "3">>
NAME_2a == <<"2", "a", ".", "m", "p", "3">>
NAME_b == <<"b", ".", "M", "P", "3">>
NAME_n == <<"n", ".", "t", "x", "t">>

Names == {NAME_1, NAME_10, NAME_2a, NAME_b, NAME_n}

\* avg_logprob is modelled in tenths: the threshold -1.0 of line 178 is -10
LOGPROB_FLOOR == -10

Segment(start, end, text, avg_logprob) ==
    [start |-> start, end |-> end, text |-> text, avg_logprob |-> avg_logprob]

\* What model.transcribe returns for each file: (segments, info)
Recording(name) ==
    CASE name = NAME_10 ->
           [duration |-> <<Time(3661, 250000)>>,
            segs |-> << Segment(Time(0, 0), Time(1, 500000), <<"s", "i", " ", "s", "i", " ", "s", "i">>, <<-5>>),
                        Segment(Time(1, 500000), Time(2, 0), <<" ">>, None),
                        Segment(Time(2, 0), Time(3, 250000), <<"n", "o">>, <<-15>>),
                        Segment(Time(3661, 0), Time(3661, 250000), <<" ", "y", "a", " ", ".">>, None) >>]
      [] name = NAME_1 ->
           [duration |-> <<Time(2, 0)>>,
            segs |-> << Segment(Time(0, 1000), Time(0, 999999), <<"b", " ", "a", " ", "a", " ", "a">>, <<-10>>),
                        Segment(Time(1, 0), Time(1, 500000), <<"b", " ", "a">>, None),
                        Segment(Time(1, 500000), Time(2, 0), BASURA_EN, <<-2>>) >>]
      [] name = NAME_b ->
           [duration |-> <<Time(1, 500000)>>,
            segs |-> << Segment(Time(0, 0), Time(0, 500000), <<>>, None),
                        Segment(Time(0, 500000), Time(1, 500000), <<"a", "\n", "b">>, <<-3>>) >>]
      [] OTHER ->
           [duration |-> None, segs |-> <<>>]

Faults == {"none", "invoke", "filter", "txt_open", "txt_write", "srt_open", "srt_write"}

LoadFaults == {"none", "primary", "both"}

(***************************************************************************)
(* Paths, lines 98-108 and 151-153                                         *)
(***************************************************************************)
\* pathlib's PurePath.suffix: from the last dot, unless it is first or last
SuffixStart(name) ==
    LET dots == {k \in 1..Len(name) : name[k] = "."}
    IN  IF dots = {} THEN 0
        ELSE LET d == CHOOSE k \in dots : \A j \in dots : k >= j
             IN  IF d > 1 /\ d < Len(name) THEN d ELSE 0

Suffix(name) == IF SuffixStart(name) = 0 THEN <<>> ELSE SubSeq(name, SuffixStart(name), Len(name))

Stem(name) == IF SuffixStart(name) = 0 THEN name ELSE SubSeq(name, 1, SuffixStart(name) - 1)

AUDIO_SUFFIXES == {<<".", "m", "p", "3">>, <<".", "w", "a", "v">>, <<".", "m", "4", "a">>, <<".", "o", "p", "u", "s">>, <<".", "o", "g", "g">>}

IsAudio(name) == FoldStr(Suffix(name)) \in AUDIO_SUFFIXES

\* Some listing of a set of names (iterdir() promises no order)
RECURSIVE Listing(_)
Listing(S) == IF S = {} THEN <<>>
              ELSE LET x == CHOOSE y \in S : TRUE IN <<x>> \o Listing(S \ {x})

\* Lines 105-108
DiscoverFiles(dir) == SortedByKey(SelectSeq(Listing(dir), IsAudio))

\* Line 151: f"{i} - {audio_file.stem}"
output_base(k, name) == IntToStr(k) \o <<" ", "-", " ">> \o Stem(name)

out_txt(k, name) == output_base(k, name) \o <<".", "t", "x", "t">>

\* Mutant of out_srt: the subtitles get the transcript's extension
out_srt_TxtExtension(k, name) == output_base(k, name) \o <<".", "t", "x", "t">>

out_srt(k, name) == output_base(k, name) \o <<".", "s", "r", "t">>

(***************************************************************************)
(* The segment filter, lines 175-183                                       *)
(***************************************************************************)
\* Mutant of FilterStep: a segment without avg_logprob is skipped like a low one
FilterStep_DropsAbsent(acc, s) ==
    IF s.avg_logprob = None \/ s.avg_logprob[1] < LOGPROB_FLOOR
    THEN acc
    ELSE LET text_seg == Strip(s.text)
         IN  IF text_seg # <<>>
             THEN [trozos |-> Append(acc.trozos, text_seg),
                   segs_buenos |-> Append(acc.segs_buenos, s)]
             ELSE acc

\* One iteration of the loop: acc is [trozos, segs_buenos]
FilterStep(acc, s) ==
    IF s.avg_logprob # None /\ s.avg_logprob[1] < LOGPROB_FLOOR
    THEN acc                                                      \* continue
    ELSE LET text_seg == Strip(s.text)
         IN  IF text_seg # <<>>
             THEN [trozos |-> Append(acc.trozos, text_seg),
                   segs_buenos |-> Append(acc.segs_buenos, s)]
             ELSE acc

RECURSIVE FilterLoop(_, _)
FilterLoop(acc, segs) ==
    IF segs = <<>> THEN acc ELSE FilterLoop(FilterStep(acc, segs[1]), Tail(segs))

FilterSegments(segs) == FilterLoop([trozos |-> <<>>, segs_buenos |-> <<>>], segs)

(***************************************************************************)
(* What the script writes: the transcript (lines 189-193) and the          *)
(* subtitles (escribir_srt, lines 81-92), as the characters of the file    *)
(***************************************************************************)
TxtContent(base, dur, text) ==
    base \o <<"\n">>
    \o <<"D", "u", "r", "a", "c", "i", "o_acute", "n", ":", " ">> \o fmt_hhmmss(dur) \o <<"\n", "\n">>
    \o <<"T", "r", "a", "n", "s", "c", "r", "i", "p", "c", "i", "o_acute", "n", ":", "\n", "\n">>
    \o text \o <<"\n">>

\* The loop of lines 85-92 from segment k on, idx being the next cue number
RECURSIVE SrtCues(_, _, _)
SrtCues(segs, k, idx) ==
    IF k > Len(segs) THEN <<>>
    ELSE LET start == srt_timestamp(segs[k].start)
             end == srt_timestamp(segs[k].end)
             text == Replace(Strip(segs[k].text), "\n", " ")
         IN  IF text = <<>> THEN SrtCues(segs, k + 1, idx)
             ELSE IntToStr(idx) \o <<"\n">>
                  \o start \o <<" ", "-", "-", ">", " ">> \o end \o <<"\n">>
                  \o text \o <<"\n", "\n">>
                  \o SrtCues(segs, k + 1, idx + 1)

SrtContent(segs) == SrtCues(segs, 1, 1)

(***************************************************************************)
(* State of one execution                                                  *)
(***************************************************************************)
\* A Python name of the per-file loop is unbound, or bound to a value made for file owner
Unbound == <<>>

Bound(owner, val) == << [owner |-> owner, val |-> val] >>

\* The file system: a function from the names in a directory to their contents
EmptyDir == [n \in {} |-> <<>>]

WriteFile(d, name, content) ==
    [n \in (DOMAIN d) \cup {name} |-> IF n = name THEN content ELSE d[n]]

\* What OUT_DIR may hold before the first execution
PriorDisks ==
    { EmptyDir,
      WriteFile(WriteFile(EmptyDir, out_txt(1, NAME_1), <<"o", "l", "d">>),
                <<"o", "l", "d", ".", "s", "r", "t">>, <<"o", "l", "d">>) }

Terminal == {"done", "exit0", "aborted"}

current == audio_files[i]

\* The state in which the interpreter starts
Fresh ==
    /\ pc = "start"
    /\ audio_files = <<>>
    /\ i = 0
    /\ MODEL_NAME = "large-v3"
    /\ loads = <<>>
    /\ invoked = <<>>
    /\ written = EmptyDir
    /\ total_seconds = Time(0, 0)
    /\ errores = <<>>
    /\ segments = Unbound
    /\ info = Unbound
    /\ trozos = Unbound
    /\ segs_buenos = Unbound
    /\ texto = Unbound
    /\ report = <<>>

Idle == arg = <<>> /\ ret = <<>>

Init ==
    /\ Fresh
    /\ Idle
    /\ run = 1
    /\ disk \in PriorDisks
    /\ prev_disk = disk
    /\ audio_dir \in {d \in SUBSET Names : Cardinality(d) <= MaxFiles}
    /\ fault \in [{n \in audio_dir : IsAudio(n)} -> Faults]
    /\ load_fault \in LoadFaults

env == <<run, prev_disk, audio_dir, fault, load_fault, arg, ret>>

locals == <<segments, info, trozos, segs_buenos, texto>>

\* Mutant of ResetOutDir: OUT_DIR is made if missing, and never removed
ResetOutDir_KeepsContents ==
    /\ pc = "start"
    /\ pc' = "discover"
    /\ UNCHANGED <<env, locals, disk, audio_files, i, MODEL_NAME, loads, invoked, written,
                   total_seconds, errores, report>>

(***************************************************************************)
(* Lines 101-103: OUT_DIR is removed and made again                        *)
(***************************************************************************)
ResetOutDir ==
    /\ pc = "start"
    /\ disk' = EmptyDir
    /\ pc' = "discover"
    /\ UNCHANGED <<env, locals, audio_files, i, MODEL_NAME, loads, invoked, written,
                   total_seconds, errores, report>>

(***************************************************************************)
(* Lines 105-116: discovery; sys.exit(0) when there is no audio            *)
(***************************************************************************)
Discover ==
    /\ pc = "discover"
    /\ audio_files' = DiscoverFiles(audio_dir)
    /\ pc' = IF audio_files' = <<>> THEN "exit0" ELSE "load"
    /\ UNCHANGED <<env, locals, disk, i, MODEL_NAME, loads, invoked, written,
                   total_seconds, errores, report>>

(***************************************************************************)
(* Lines 127-146: the model is loaded, large-v2 standing in for large-v3   *)
(***************************************************************************)
\* Lines 139-148: the accumulators start empty and the loop at the first file
EnterLoop ==
    /\ total_seconds' = Time(0, 0)
    /\ errores' = <<>>
    /\ i' = 1
    /\ pc' = "invoke"

LoadPrimary ==
    /\ pc = "load"
    /\ loads' = Append(loads, MODEL_NAME)
    /\ IF load_fault = "none"
       THEN EnterLoop
       ELSE pc' = "fallback" /\ UNCHANGED <<total_seconds, errores, i>>
    /\ UNCHANGED <<env, locals, disk, audio_files, MODEL_NAME, invoked, written, report>>

\* Mutant of LoadFallback: a failure of large-v2 is swallowed and the loop starts
LoadFallback_Swallows ==
    /\ pc = "fallback"
    /\ MODEL_NAME' = "large-v2"
    /\ loads' = Append(loads, MODEL_NAME')
    /\ EnterLoop
    /\ UNCHANGED <<env, locals, disk, audio_files, invoked, written, report>>

LoadFallback ==
    /\ pc = "fallback"
    /\ MODEL_NAME' = "large-v2"
    /\ loads' = Append(loads, MODEL_NAME')
    /\ IF load_fault = "primary"
       THEN EnterLoop
       ELSE pc' = "aborted" /\ UNCHANGED <<total_seconds, errores, i>>   \* the exception ends the script
    /\ UNCHANGED <<env, locals, disk, audio_files, invoked, written, report>>

(***************************************************************************)
(* The loop of lines 148-218                                               *)
(***************************************************************************)
\* The next iteration of the for loop, or the code after it
Advance ==
    /\ i' = i + 1
    /\ pc' = IF i < Len(audio_files) THEN "invoke" ELSE "report"

\* Mutant of Except: the failure is recorded and ends the batch
Except_EndsBatch ==
    /\ errores' = Append(errores, current)
    /\ i' = i
    /\ pc' = "aborted"

\* Lines 210-218: the handler of the try block
Except ==
    /\ errores' = Append(errores, current)
    /\ Advance

\* Mutant of Accumulate: the total is assigned, not added to
Accumulate_Assigns(total, dur) == dur

\* Line 172: total_seconds += dur
Accumulate(total, dur) == TimeAdd(total, dur)

\* Lines 157-172
Invoke ==
    /\ pc = "invoke"
    /\ invoked' = Append(invoked, <<current, MODEL_NAME>>)
    /\ IF fault[current] = "invoke"
       THEN Except /\ UNCHANGED <<segments, info, total_seconds>>
       ELSE /\ segments' = Bound(i, Recording(current).segs)
            /\ info' = Bound(i, Recording(current).duration)
            /\ LET dur == IF info'[1].val = None THEN Time(0, 0) ELSE info'[1].val[1]
               IN  total_seconds' = Accumulate(total_seconds, dur)
            /\ pc' = "filter"
            /\ UNCHANGED <<errores, i>>
    /\ UNCHANGED <<env, disk, audio_files, MODEL_NAME, loads, written, report,
                   trozos, segs_buenos, texto>>

\* Lines 175-186.  The segments are a generator: it may raise after any number of them.
Filter ==
    /\ pc = "filter"
    /\ IF fault[current] = "filter"
       THEN /\ \E k \in 0..Len(segments[1].val) :
                 LET acc == FilterSegments(SubSeq(segments[1].val, 1, k))
                 IN  /\ trozos' = Bound(i, acc.trozos)
                     /\ segs_buenos' = Bound(i, acc.segs_buenos)
            /\ Except
            /\ UNCHANGED texto
       ELSE /\ LET acc == FilterSegments(segments[1].val)
               IN  /\ trozos' = Bound(i, acc.trozos)
                   /\ segs_buenos' = Bound(i, acc.segs_buenos)
                   /\ texto' = Bound(i, postprocesar(Join(acc.trozos, <<"\n">>)))
            /\ pc' = "write_txt"
            /\ UNCHANGED <<errores, i>>
    /\ UNCHANGED <<env, disk, audio_files, MODEL_NAME, loads, invoked, written, report,
                   segments, info, total_seconds>>

\* Lines 189-193.  open() raises, or it makes the file and the write raises
\* when the buffer is flushed, or the transcript is written.
WriteTxt ==
    /\ pc = "write_txt"
    /\ LET dur == IF info[1].val = None THEN Time(0, 0) ELSE info[1].val[1]
           path == out_txt(i, current)
           full == TxtContent(output_base(i, current), dur, texto[1].val)
       IN  CASE fault[current] = "txt_open" ->
                  Except /\ UNCHANGED <<disk, written>>
             [] fault[current] = "txt_write" ->
                  /\ disk' = WriteFile(disk, path, <<>>)
                  /\ written' = WriteFile(written, path, <<>>)
                  /\ Except
             [] OTHER ->
                  /\ disk' = WriteFile(disk, path, full)
                  /\ written' = WriteFile(written, path, full)
                  /\ pc' = "write_srt"
                  /\ UNCHANGED <<errores, i>>
    /\ UNCHANGED <<env, locals, audio_files, MODEL_NAME, loads, invoked, report,
                   total_seconds>>

\* Line 196, escribir_srt
WriteSrt ==
    /\ pc = "write_srt"
    /\ LET path == out_srt(i, current)
           full == SrtContent(segs_buenos[1].val)
       IN  CASE fault[current] = "srt_open" ->
                  Except /\ UNCHANGED <<disk, written>>
             [] fault[current] = "srt_write" ->
                  /\ disk' = WriteFile(disk, path, <<>>)
                  /\ written' = WriteFile(written, path, <<>>)
                  /\ Except
             [] OTHER ->
                  /\ disk' = WriteFile(disk, path, full)
                  /\ written' = WriteFile(written, path, full)
                  /\ pc' = "release"
                  /\ UNCHANGED <<errores, i>>
    /\ UNCHANGED <<env, locals, audio_files, MODEL_NAME, loads, invoked, report,
                   total_seconds>>

\* Lines 198-208: del segments, info, segs_buenos, trozos, texto
Release ==
    /\ pc = "release"
    /\ segments' = Unbound
    /\ info' = Unbound
    /\ segs_buenos' = Unbound
    /\ trozos' = Unbound
    /\ texto' = Unbound
    /\ Advance
    /\ UNCHANGED <<env, disk, audio_files, MODEL_NAME, loads, invoked, written, report,
                   total_seconds, errores>>

(***************************************************************************)
(* Lines 223-229: the final report                                         *)
(***************************************************************************)
Report ==
    /\ pc = "report"
    /\ report' = << [total |-> fmt_hhmmss(total_seconds), failed |-> errores] >>
    /\ pc' = "done"
    /\ UNCHANGED <<env, locals, disk, audio_files, i, MODEL_NAME, loads, invoked, written,
                   total_seconds, errores>>

(***************************************************************************)
(* The script is run again on the same input, with the same stub           *)
(***************************************************************************)
RunAgain ==
    /\ pc \in Terminal
    /\ run < MaxRuns
    /\ run' = run + 1
    /\ prev_disk' = disk
    /\ pc' = "start"
    /\ audio_files' = <<>>
    /\ i' = 0
    /\ MODEL_NAME' = "large-v3"
    /\ loads' = <<>>
    /\ invoked' = <<>>
    /\ written' = EmptyDir
    /\ total_seconds' = Time(0, 0)
    /\ errores' = <<>>
    /\ segments' = Unbound
    /\ info' = Unbound
    /\ trozos' = Unbound
    /\ segs_buenos' = Unbound
    /\ texto' = Unbound
    /\ report' = <<>>
    /\ UNCHANGED <<disk, audio_dir, fault, load_fault, arg, ret>>

Next ==
    \/ ResetOutDir
    \/ Discover
    \/ LoadPrimary
    \/ LoadFallback
    \/ Invoke
    \/ Filter
    \/ WriteTxt
    \/ WriteSrt
    \/ Release
    \/ Report
    \/ RunAgain

Spec == Init /\ [][Next]_vars

(***************************************************************************)
(* Specifications that apply one function of the script to an input drawn  *)
(* from a bounded set; the batch does not run in them.                     *)
(***************************************************************************)
batch == <<pc, run, disk, prev_disk, audio_dir, fault, load_fault, audio_files, i,
           MODEL_NAME, loads, invoked, total_seconds, errores, segments, info,
           trozos, segs_buenos, texto, report, written>>

Parked ==
    /\ Fresh
    /\ run = 1
    /\ disk = EmptyDir
    /\ prev_disk = EmptyDir
    /\ audio_dir = {}
    /\ fault = EmptyDir
    /\ load_fault = "none"

\* All sequences over S of length 0..n
RECURSIVE SeqsUpTo(_, _)
SeqsUpTo(S, n) ==
    IF n = 0 THEN {<<>>}
    ELSE LET shorter == SeqsUpTo(S, n - 1)
         IN  shorter \cup {Append(q, x) : q \in shorter, x \in S}

\* --- srt_timestamp ---
MaxHours == 11      \* largest hour of a time handed to srt_timestamp

SrtTimes ==
    {Time(h * 3600 + m * 60 + sec, us) :
        h \in 0..MaxHours, m \in {0, 1, 59}, sec \in {0, 1, 59},
        us \in {0, 1, 999, 1000, 250000, 999999}}
    \cup {Time(sec, us) : sec \in {-2, -1}, us \in {0, 500000}}

InitSrt == Parked /\ arg \in SrtTimes /\ ret = <<>>

FormatTimestamp ==
    /\ ret = <<>>
    /\ ret' = <<srt_timestamp(arg)>>
    /\ UNCHANGED <<batch, arg>>

SpecSrt == InitSrt /\ [][FormatTimestamp]_vars

\* --- postprocesar ---
MaxTextLen == 6     \* longest text handed to postprocesar

TextChars == {"a", "b", " ", ",", ".", "\n"}

InitNorm == Parked /\ arg \in SeqsUpTo(TextChars, MaxTextLen) /\ ret = <<>>

Normalize ==
    /\ ret = <<>>
    /\ ret' = <<postprocesar(arg)>>
    /\ UNCHANGED <<batch, arg>>

SpecNorm == InitNorm /\ [][Normalize]_vars

\* --- windows_natural_key and the sort of line 105 ---
MaxNameLen == 3     \* longest file name handed to the sort

NameChars == {"1", "2", "a", "_", "."}

InitKey ==
    /\ Parked
    /\ arg \in SeqsUpTo(NameChars, MaxNameLen) \X SeqsUpTo(NameChars, MaxNameLen)
    /\ ret = <<>>

SortPair ==
    /\ ret = <<>>
    /\ ret' = <<SortedByKey(arg)>>
    /\ UNCHANGED <<batch, arg>>

SpecKey == InitKey /\ [][SortPair]_vars

\* --- the segment filter ---
MaxSegs == 2        \* longest segment sequence handed to the filter

SegmentKinds ==
    {Segment(Time(0, 0), Time(1, 0), text, lp) :
        text \in {<<>>, <<" ">>, <<"a">>, <<" ", "b", "\n">>},
        lp \in {None, <<-15>>, <<-10>>, <<-5>>}}

InitFilter == Parked /\ arg \in SeqsUpTo(SegmentKinds, MaxSegs) /\ ret = <<>>

ApplyFilter ==
    /\ ret = <<>>
    /\ ret' = <<FilterSegments(arg)>>
    /\ UNCHANGED <<batch, arg>>

SpecFilter == InitFilter /\ [][ApplyFilter]_vars

(***************************************************************************)
(* Properties                                                              *)
(***************************************************************************)
Range(q) == {q[k] : k \in 1..Len(q)}

Reported == pc \in {"report", "done"}

InLoop == pc \in {"invoke", "filter", "write_txt", "write_srt", "release"}

InvokedNames == [k \in 1..Len(invoked) |-> invoked[k][1]]

Failed(name) == fault[name] # "none"

\* The duration the engine reports for a file (None counts as zero, line 171)
DurationOf(name) ==
    IF Recording(name).duration = None THEN Time(0, 0) ELSE Recording(name).duration[1]

\* The sum of the durations of the files of names that are in counted
RECURSIVE SumDurations(_, _)
SumDurations(names, counted) ==
    IF names = <<>> THEN Time(0, 0)
    ELSE TimeAdd(IF names[1] \in counted THEN DurationOf(names[1]) ELSE Time(0, 0),
                 SumDurations(Tail(names), counted))

HasTxt(k) == out_txt(k, audio_files[k]) \in DOMAIN disk

HasSrt(k) == out_srt(k, audio_files[k]) \in DOMAIN disk

IsHeldFor(v, k) == v # Unbound /\ v[1].owner = k

\* Steps of the loop that are still ahead: five per file not yet begun, and the rest
\* of the file in hand
StageRank ==
    CASE pc = "invoke" -> 5
      [] pc = "filter" -> 4
      [] pc = "write_txt" -> 3
      [] pc = "write_srt" -> 2
      [] pc = "release" -> 1
      [] OTHER -> 0

StepsAhead == 5 * (Len(audio_files) - i) + StageRank

\* Every stage of the loop has the file and the values it reads: no stage waits on
\* anything but the position of the script
StageReady ==
    /\ InLoop => i \in 1..Len(audio_files) /\ current \in DOMAIN fault
    /\ pc = "filter" => IsHeldFor(segments, i)
    /\ pc = "write_txt" => IsHeldFor(info, i) /\ IsHeldFor(texto, i)
    /\ pc = "write_srt" => IsHeldFor(segs_buenos, i)

\* C1: whatever files fail and at whatever stage, the run reaches the report (every
\* stage of the loop can run, every step of the loop brings the report nearer and
\* none leaves the loop for anything but the report); every discovered file is
\* invoked exactly once in discovery order, the failure list holds exactly the
\* failing files once each in discovery order, and every other file has its
\* transcript and its subtitles.
C1_State ==
    /\ StageReady
    /\ (InLoop \/ Reported) => InvokedNames = SubSeq(audio_files, 1, Len(invoked))
    /\ Reported =>
         /\ InvokedNames = audio_files
         /\ errores = SelectSeq(audio_files, Failed)
         /\ \A k \in 1..Len(audio_files) :
                ~Failed(audio_files[k]) =>
                    /\ HasTxt(k) /\ HasSrt(k)
                    /\ disk[out_srt(k, audio_files[k])]
                         = SrtContent(FilterSegments(Recording(audio_files[k]).segs).segs_buenos)

C1_FaultIsolation ==
    /\ [](C1_State)
    /\ [][InLoop => /\ InLoop' \/ pc' = "report"
                    /\ StepsAhead' < StepsAhead]_vars

\* C1 witness: three files, the second raises in the engine, the report is reached
C1_Witness ==
    /\ pc = "report"
    /\ Len(audio_files) = 3
    /\ fault[audio_files[1]] = "none"
    /\ fault[audio_files[2]] = "invoke"
    /\ fault[audio_files[3]] = "none"

\* C2 as stated: at the report the total is the sum of the durations of the files
\* that are not in the failure list.
C2_OnlySuccessful ==
    Reported =>
        total_seconds = SumDurations(audio_files, Range(audio_files) \ Range(errores))

\* C2 as amended: at the report the total is the sum of the durations of the files
\* whose invocation returned, whether or not they failed afterwards; only a file
\* whose invocation raised adds nothing.
C2_InvocationReturned ==
    Reported =>
        /\ total_seconds = SumDurations(audio_files,
                                        {n \in Range(audio_files) : fault[n] # "invoke"})
        /\ report # <<>> => report[1].total = fmt_hhmmss(total_seconds)

\* C2 witness: at the report, one file with a duration failed after its invocation,
\* another one failed in its invocation, and a third one succeeded
C2_Witness ==
    /\ pc = "done"
    /\ \E n \in Range(errores) : fault[n] \in {"filter", "srt_open"} /\ DurationOf(n).s > 0
    /\ \E n \in Range(errores) : fault[n] = "invoke" /\ DurationOf(n).s > 0
    /\ \E n \in Range(audio_files) : ~Failed(n) /\ DurationOf(n).s > 0

\* C3 as stated: when the run ends, no file of the failure list has a transcript
\* or a subtitle file in OUT_DIR.
C3_NoArtifacts ==
    pc = "done" =>
        \A k \in 1..Len(audio_files) :
            audio_files[k] \in Range(errores) => ~HasTxt(k) /\ ~HasSrt(k)

\* C3 as amended: when the run ends, a file that failed in the engine or in the
\* filter has neither file in OUT_DIR, and a file whose subtitles failed after its
\* transcript was written still has the whole transcript there.
C3_EarlyFailuresLeaveNothing ==
    pc = "done" =>
        \A k \in 1..Len(audio_files) :
            LET n == audio_files[k]
            IN  /\ (n \in Range(errores) /\ fault[n] \in {"invoke", "filter"})
                     => ~HasTxt(k) /\ ~HasSrt(k)
                /\ (n \in Range(errores) /\ fault[n] \in {"srt_open", "srt_write"})
                     => /\ HasTxt(k)
                        /\ disk[out_txt(k, n)]
                             = TxtContent(output_base(k, n), DurationOf(n),
                                  postprocesar(Join(FilterSegments(Recording(n).segs).trozos,
                                                    <<"\n">>)))

\* C3 witness: the run ended with a file that failed in the filter and a file whose
\* subtitle file could not be opened
C3_Witness ==
    /\ pc = "done"
    /\ \E n \in Range(errores) : fault[n] = "filter"
    /\ \E n \in Range(errores) : fault[n] = "srt_open"

\* C4: srt_timestamp(t) is HH:MM:SS,mmm of max(0, t) floored to the millisecond.
SrtExpected(t) ==
    LET c == IF t.s < 0 THEN Time(0, 0) ELSE t
    IN  Pad2(c.s \div 3600) \o <<":">> \o Pad2((c.s % 3600) \div 60) \o <<":">>
        \o Pad2(c.s % 60) \o <<",">> \o RjustZero(IntToStr(c.us \div 1000), 3)

C4_SrtFormat == ret # <<>> => ret[1] = SrtExpected(arg)

\* C5: postprocesar(postprocesar(x)) = postprocesar(x) for every text x.
C5_Idempotent == ret # <<>> => postprocesar(ret[1]) = ret[1]

\* C6: a name that starts with digits has the key (0, value of the digits, ...) and
\* sorts before every name that does not; two such names with different values are
\* sorted by value.
DigitLed(n) == n # <<>> /\ IsDigit(n[1])

PrefixValue(n) == StrToInt(SubSeq(n, 1, RunLen("digit", n, 1)))

Before(a, b, sorted) ==
    /\ (DigitLed(a) /\ ~DigitLed(b)) => sorted = <<a, b>>
    /\ (DigitLed(a) /\ DigitLed(b) /\ PrefixValue(a) < PrefixValue(b)) => sorted = <<a, b>>

C6_NumericPrefixFirst ==
    ret # <<>> =>
        /\ \A n \in {arg[1], arg[2]} :
               DigitLed(n) => /\ windows_natural_key(n)[1] = 0
                              /\ windows_natural_key(n)[2] = PrefixValue(n)
        /\ Before(arg[1], arg[2], ret[1])
        /\ Before(arg[2], arg[1], ret[1])

\* C7 as stated: a segment without a confidence is kept whatever its text is: its
\* text is handed to the normalizer and the segment to the subtitle writer.
C7_AbsentAlwaysKept ==
    ret # <<>> =>
        \A k \in 1..Len(arg) :
            arg[k].avg_logprob = None =>
                /\ arg[k] \in Range(ret[1].segs_buenos)
                /\ Strip(arg[k].text) \in Range(ret[1].trozos)

\* C7 as amended: a segment without a confidence always passes the confidence
\* check: it is kept exactly when its trimmed text is not empty.
C7_AbsentKeptIffText ==
    ret # <<>> =>
        \A k \in 1..Len(arg) :
            arg[k].avg_logprob = None =>
                /\ arg[k] \in Range(ret[1].segs_buenos) <=> Strip(arg[k].text) # <<>>
                /\ Strip(arg[k].text) \in Range(ret[1].trozos) <=> Strip(arg[k].text) # <<>>

\* C7 witness: the filter ran on a segment without confidence and with text, and on
\* one without confidence whose text is white space
C7_Witness ==
    /\ ret # <<>>
    /\ \E k \in 1..Len(arg) : arg[k].avg_logprob = None /\ Strip(arg[k].text) # <<>>
    /\ \E k \in 1..Len(arg) : arg[k].avg_logprob = None /\ arg[k].text = <<" ">>

\* C8: when a run ends OUT_DIR holds what that run wrote and nothing else, whatever
\* it held before, and a second run on the same input with the same outcomes leaves
\* the same contents.
C8_IdempotentRebuild ==
    pc \in Terminal =>
        /\ disk = written
        /\ run > 1 => disk = prev_disk

\* C8 witness: a second run ended, with files written and a file that failed
C8_Witness ==
    /\ pc = "done"
    /\ run = 2
    /\ disk # EmptyDir
    /\ errores # <<>>

\* C9: the model is constructed at most twice, large-v3 and then large-v2 only if
\* large-v3 failed, before any file is invoked; if both fail the run ends with no
\* invocation, nothing written and nothing in the failure list; if only large-v3
\* fails every file is invoked on large-v2.
C9_EngineFallback ==
    /\ loads \in {<<>>, <<"large-v3">>, <<"large-v3", "large-v2">>}
    /\ Len(loads) = 2 => load_fault # "none"
    /\ pc \in {"start", "discover", "load", "fallback"} => invoked = <<>>
    /\ invoked # <<>> => loads # <<>> /\ load_fault # "both"
    /\ load_fault = "both" => pc \in {"start", "discover", "load", "fallback", "aborted", "exit0"}
    /\ pc = "aborted" =>
         /\ Len(loads) = 2
         /\ invoked = <<>>
         /\ disk = EmptyDir
         /\ written = EmptyDir
         /\ errores = <<>>
    /\ load_fault = "primary" =>
         /\ \A k \in 1..Len(invoked) : invoked[k][2] = "large-v2"
         /\ Reported => InvokedNames = audio_files
    /\ load_fault = "none" => \A k \in 1..Len(invoked) : invoked[k][2] = "large-v3"

\* C9 witness: both constructions failed with files waiting
C9_Witness == pc = "aborted" /\ Len(audio_files) >= 2 /\ run = 2

\* C10: when the engine is about to be invoked on file i+1, none of the buffers of
\* file i is still bound.
HeldFor(k) ==
    \/ IsHeldFor(segments, k)
    \/ IsHeldFor(info, k)
    \/ IsHeldFor(trozos, k)
    \/ IsHeldFor(segs_buenos, k)
    \/ IsHeldFor(texto, k)

C10_Released == (pc = "invoke" /\ i > 1) => ~HeldFor(i - 1)

====
